---- MODULE Spec2Model ----
(***************************************************************************)
(* The records-store API: telemetry setup (api/telemetry.py), the request  *)
(* instrumentation middleware (api/main.py) and the route handlers it      *)
(* wraps (api/routes.py).                                                  *)
(*                                                                         *)
(* One asyncio task serves each request.  The middleware has a single      *)
(* suspension point (await call_next), so a request is three steps:        *)
(* the middleware up to the await, the downstream handler, and the         *)
(* middleware's continuation together with the exit of its span scope.     *)
(* Wall-clock durations are not modelled: the duration histogram keeps the *)
(* number of observations per label tuple.                                 *)
(***************************************************************************)
EXTENDS Integers, Sequences, FiniteSets, TLC

(* ---------------------------- bounds ----------------------------------- *)
MaxReqs == 2
MaxSetupCalls == 3

Reqs == 1..MaxReqs

(* ---------------------------- inputs ----------------------------------- *)
\* ids and quantities that requests name
ProductIds == {1, 2}
OrderIds == {1, 2}
Quantities == {2}

(* ---------------------------- values ----------------------------------- *)
None == "None"
SERVICE_NAME == "kodekloud-record-store-service"
ServiceNames == {None, "api"}
BaseUrl == "http://api"

NoResult == [kind |-> "none"]

\* the products table as the process finds it
SeededProducts == {1}

\* exceptions a downstream handler can raise (subclasses of Exception)
Exceptions ==
  { [type |-> "ValueError", msg |-> "bad value"],
    [type |-> "RuntimeError", msg |-> "boom"] }

\* the step of setup_telemetry's try block that raises; 0: none does
FailPoints == {0, 1, 2, 3, 4, 5, 6, 8}

\* the outcomes of the import-time call as requests see them: the provider
\* is registered (no statement raises) or none is (the exporter raises)
ImportFailPoints == {0, 3}

VARIABLES
  otel,          \* telemetry.py module state and the OpenTelemetry globals
  setup_results, \* return values of the setup_telemetry calls, in order
  spans,         \* every span created, by span id (its index)
  pc,            \* per request: position of its middleware task
  req,           \* per request: the request being served
  span_of,       \* per request: the middleware's local `span`
  ctx,           \* per request task: the current span of its context
  result,        \* per request: outcome of `await call_next(request)`
  delivered,     \* per request: what the middleware handed to its caller
  events,        \* per request: span, metric and log effects, in order
  REQUEST_COUNT, REQUEST_DURATION, ERROR_COUNT,
  products, orders, celery_tasks, background_tasks

vars == <<otel, setup_results, spans, pc, req, span_of, ctx, result,
          delivered, events, REQUEST_COUNT, REQUEST_DURATION, ERROR_COUNT,
          products, orders, celery_tasks, background_tasks>>

telemetry_vars == <<otel, setup_results>>
request_vars == <<pc, req, span_of, ctx, result, delivered, events>>
metric_vars == <<REQUEST_COUNT, REQUEST_DURATION, ERROR_COUNT>>
db_vars == <<products, orders, celery_tasks, background_tasks>>

(* ---------------------------- spans ------------------------------------ *)
StatusUnset == [code |-> "UNSET", description |-> None]

NewSpan(name, attributes, owner, valid) ==
  [name |-> name, attributes |-> attributes, status |-> StatusUnset,
   exceptions |-> <<>>, ends |-> 0, valid |-> valid, owner |-> owner,
   touched_by |-> {}]

\* tracer.start_as_current_span(...): a new span, whose id is fresh
StartSpan(ss, name, attributes, owner, valid) ==
  Append(ss, NewSpan(name, attributes, owner, valid))

SetAttribute(ss, id, by, key, value) ==
  [ss EXCEPT ![id].attributes = (key :> value) @@ @,
             ![id].touched_by = @ \cup {by}]

SetStatus(ss, id, by, code, description) ==
  [ss EXCEPT ![id].status = [code |-> code, description |-> description],
             ![id].touched_by = @ \cup {by}]

RecordException(ss, id, by, e) ==
  [ss EXCEPT ![id].exceptions = Append(@, e),
             ![id].touched_by = @ \cup {by}]

EndSpanLeak(ss, id) == ss

\* leaving the `with` block: the span is ended
EndSpan(ss, id) == [ss EXCEPT ![id].ends = @ + 1]

(* ---------------------------- telemetry.py ----------------------------- *)
OtelInit ==
  [initialized |-> FALSE, providers |-> <<>>, exporters |-> 0,
   global_provider |-> 0, global_textmap |-> FALSE]

\* The try block of setup_telemetry, statement by statement; `fail` is the
\* statement that raises.  Returns the module state after the call.
SetupBody(t, name, fail) ==
  LET t2 == IF fail \in {1, 2} THEN t
            ELSE [t EXCEPT !.providers =
                    Append(@, [service_name |-> name, processors |-> 0])]
      p  == Len(t2.providers)
      t3 == IF fail \in {1, 2, 3} THEN t2
            ELSE [t2 EXCEPT !.exporters = @ + 1]
      t4 == IF fail \in {1, 2, 3, 4} THEN t3
            ELSE [t3 EXCEPT !.providers[p].processors = @ + 1]
      t5 == IF fail \in {1, 2, 3, 4, 5} THEN t4
            ELSE [t4 EXCEPT !.global_provider = p]
      t6 == IF fail \in {1, 2, 3, 4, 5, 6} THEN t5
            ELSE [t5 EXCEPT !.global_textmap = TRUE]
      t7 == IF fail \in {1, 2, 3, 4, 5, 6} THEN t6
            ELSE [t6 EXCEPT !.initialized = TRUE]
  IN t7

\* the test span of a setup that got as far as creating it
SetupTestSpan(ss, name, fail) ==
  IF fail # 0 THEN ss
  ELSE EndSpan(
         SetAttribute(
           SetAttribute(
             StartSpan(ss, "telemetry_test_span", <<>>, 0, TRUE),
             Len(ss) + 1, 0, "test.attribute", "test-value"),
           Len(ss) + 1, 0, "service.name", name),
         Len(ss) + 1)

ActualServiceName(service_name) ==
  IF service_name # None THEN service_name ELSE SERVICE_NAME

NeverInitialized(t) == FALSE

\* `if _telemetry_initialized:`
AlreadyInitialized(t) == t.initialized

setup_telemetry(service_name, fail) ==
  /\ Len(setup_results) < MaxSetupCalls
  /\ IF AlreadyInitialized(otel)
       THEN /\ setup_results' = Append(setup_results, FALSE)
            /\ UNCHANGED <<otel, spans>>
       ELSE /\ otel' = SetupBody(otel, ActualServiceName(service_name), fail)
            /\ spans' = SetupTestSpan(spans, ActualServiceName(service_name), fail)
            /\ setup_results' = Append(setup_results, fail = 0)
  /\ UNCHANGED <<request_vars, metric_vars, db_vars>>

SetupTelemetry ==
  \E service_name \in ServiceNames, fail \in FailPoints :
    setup_telemetry(service_name, fail)

(* ---------------------------- formatting ----------------------------- *)
HexDigits ==
  <<"0", "1", "2", "3", "4", "5", "6", "7", "8", "9", "a", "b", "c", "d", "e", "f">>

RECURSIVE Hex(_)
Hex(n) ==
  IF n < 16 THEN HexDigits[n + 1]
  ELSE Hex(n \div 16) \o HexDigits[(n % 16) + 1]

RECURSIVE ZeroPad(_, _)
ZeroPad(s, width) == IF Len(s) >= width THEN s ELSE ZeroPad("0" \o s, width)

\* format(n, "032x") and format(n, "016x")
Format(n, width) == ZeroPad(Hex(n), width)

\* a root span starts its own trace: the ids are drawn per span
TraceIdOf(id) == id
SpanIdOf(id) == id

FormatTraceId(ss, id) ==
  IF id # 0 /\ ss[id].valid THEN Format(TraceIdOf(id), 32) ELSE None

FormatSpanId(ss, id) ==
  IF id # 0 /\ ss[id].valid THEN Format(SpanIdOf(id), 16) ELSE None

(* ---------------------------- StructuredLogger ------------------------- *)
\* the record logged: the trace context of the task's current span, then
\* the caller's keyword arguments, which win on equal keys
LogData(ss, current, msg, level, kwargs) ==
  kwargs @@ [message |-> msg, level |-> level,
             trace_id |-> FormatTraceId(ss, current),
             span_id |-> FormatSpanId(ss, current)]

LogEvent(ss, current, msg, level, kwargs) ==
  [ev |-> "log", data |-> LogData(ss, current, msg, level, kwargs)]

(* ---------------------------- metrics ---------------------------------- *)
\* Counter.labels(...).inc() and Histogram.labels(...).observe(...)
Inc(metric, labels) ==
  IF labels \in DOMAIN metric
    THEN [metric EXCEPT ![labels] = @ + 1]
    ELSE (labels :> 1) @@ metric

HttpErrorType(status_code) == "http_" \o ToString(status_code)

MetricEvent(name, labels) == [ev |-> name, labels |-> labels]

(* ---------------------------- requests --------------------------------- *)
ProcessPath(order_id) == "/orders/" \o ToString(order_id) \o "/process"

Requests ==
  {[method |-> "GET", path |-> "/", body |-> None],
   [method |-> "GET", path |-> "/error-test", body |-> None]}
  \cup {[method |-> "POST", path |-> "/checkout",
         body |-> [product_id |-> p, quantity |-> q]] :
          p \in ProductIds, q \in Quantities}
  \cup {[method |-> "POST", path |-> ProcessPath(o), body |-> None] :
          o \in OrderIds}

SpanEvent(name, id) == [ev |-> name, span |-> id]

\* metrics_middleware up to `await call_next(request)`; requests are
\* numbered in the order they arrive
ReceiveRequest(r, rq) ==
  /\ pc[r] = "idle"
  /\ \A q \in 1..(r - 1) : pc[q] # "idle"
  /\ LET id == Len(spans) + 1 IN
       /\ spans' = StartSpan(spans, rq.method \o " " \o rq.path,
                     ("http.method" :> rq.method)
                       @@ ("http.url" :> BaseUrl \o rq.path)
                       @@ ("http.route" :> rq.path),
                     r, otel.global_provider # 0)
       /\ span_of' = [span_of EXCEPT ![r] = id]
       /\ ctx' = [ctx EXCEPT ![r] = id]
       /\ events' = [events EXCEPT ![r] = <<SpanEvent("span_start", id)>>]
  /\ req' = [req EXCEPT ![r] = rq]
  /\ pc' = [pc EXCEPT ![r] = "awaiting"]
  /\ UNCHANGED <<telemetry_vars, result, delivered, metric_vars, db_vars>>

(* ---------------------------- routes.py -------------------------------- *)
Response(status_code, body) ==
  [kind |-> "response", status_code |-> status_code, body |-> body]

Returns(r, response) ==
  /\ result' = [result EXCEPT ![r] = response]
  /\ pc' = [pc EXCEPT ![r] = "returned"]
  /\ UNCHANGED <<telemetry_vars, spans, req, span_of, ctx, delivered, events,
                 metric_vars>>

root(r) ==
  /\ pc[r] = "awaiting"
  /\ req[r].path = "/"
  /\ Returns(r, Response(200,
       [message |-> "KodeKloud Record Store API is running!"]))
  /\ UNCHANGED db_vars

error_test(r) ==
  /\ pc[r] = "awaiting"
  /\ req[r].path = "/error-test"
  /\ Returns(r, Response(500, [error |-> "Simulated error"]))
  /\ UNCHANGED db_vars

AnyProduct(table, product_id) == TRUE

\* db.query(Product).filter(Product.id == product_id).first() is not None
ProductExists(table, product_id) == product_id \in table

checkout(r) ==
  /\ pc[r] = "awaiting"
  /\ req[r].path = "/checkout"
  /\ LET order == req[r].body IN
       IF ~ProductExists(products, order.product_id)
         THEN /\ Returns(r, Response(404, [detail |-> "Product not found"]))
              /\ UNCHANGED db_vars
         ELSE LET order_id == Len(orders) + 1
                  task_id == Len(celery_tasks) + 1
              IN /\ orders' = Append(orders,
                      [product_id |-> order.product_id,
                       quantity |-> order.quantity])
                 /\ celery_tasks' = Append(celery_tasks,
                      [task |-> "process_order",
                       order_data |-> [product_id |-> order.product_id,
                                       quantity |-> order.quantity]])
                 /\ background_tasks' = Append(background_tasks,
                      [task |-> "send_order_confirmation",
                       order_id |-> order_id])
                 /\ Returns(r, Response(200,
                      [message |-> "Order received, processing in the background",
                       order_id |-> order_id, task_id |-> task_id]))
                 /\ UNCHANGED products

process_specific_order(r) ==
  /\ pc[r] = "awaiting"
  /\ \E order_id \in OrderIds :
       /\ req[r].path = ProcessPath(order_id)
       /\ IF order_id \notin DOMAIN orders
            THEN /\ Returns(r, Response(404,
                      [detail |-> "Order with ID " \o ToString(order_id)
                                    \o " not found"]))
                 /\ UNCHANGED db_vars
            ELSE /\ celery_tasks' = Append(celery_tasks,
                      [task |-> "process_order",
                       order_data |-> [product_id |-> orders[order_id].product_id,
                                       quantity |-> orders[order_id].quantity]])
                 /\ Returns(r, Response(200,
                      [message |-> "Order " \o ToString(order_id)
                                     \o " processing triggered",
                       order_id |-> order_id,
                       task_id |-> Len(celery_tasks) + 1]))
                 /\ UNCHANGED <<products, orders, background_tasks>>

\* call_next raises an exception of the downstream application
CallNextRaises(r, e) ==
  /\ pc[r] = "awaiting"
  /\ result' = [result EXCEPT ![r] =
       [kind |-> "exception", type |-> e.type, msg |-> e.msg]]
  /\ pc' = [pc EXCEPT ![r] = "raised"]
  /\ UNCHANGED <<telemetry_vars, spans, req, span_of, ctx, delivered, events,
                 metric_vars, db_vars>>

\* the task is cancelled while it awaits call_next (asyncio.CancelledError,
\* a BaseException that is no Exception)
CallNextCancelled(r) ==
  /\ pc[r] = "awaiting"
  /\ result' = [result EXCEPT ![r] = [kind |-> "cancelled"]]
  /\ pc' = [pc EXCEPT ![r] = "cancelled"]
  /\ UNCHANGED <<telemetry_vars, spans, req, span_of, ctx, delivered, events,
                 metric_vars, db_vars>>

(* ---------------------------- metrics_middleware, continued ---------- *)
LatestSpan(r) == Len(spans)

\* the middleware's local variable `span`, bound by `with ... as span`
LocalSpan(r) == span_of[r]

IsServerError(status_code) == status_code >= 500

IsHttpError(status_code) == status_code >= 400

ExceptionBaseName(e) == "Exception"

\* type(e).__name__
ExceptionTypeName(e) == e.type

\* the span after the normal-completion path
ResponseSpan(ss, id, r, status_code) ==
  LET s1 == SetAttribute(ss, id, r, "http.status_code", status_code)
  IN IF status_code >= 400 THEN SetStatus(s1, id, r, "ERROR", None) ELSE s1

ResponseEffectsEarlyReturn(ss, current, id, rq, status_code) ==
  LET kwargs == [method |-> rq.method, endpoint |-> rq.path,
                 status_code |-> status_code,
                 trace_id |-> FormatTraceId(ss, id),
                 span_id |-> FormatSpanId(ss, id)]
  IN IF status_code >= 400
       THEN <<MetricEvent("REQUEST_COUNT", <<rq.method, rq.path, status_code>>),
              MetricEvent("ERROR_COUNT",
                <<rq.method, rq.path, HttpErrorType(status_code)>>),
              LogEvent(ss, current, "http_error", "ERROR", kwargs)>>
       ELSE <<MetricEvent("REQUEST_COUNT", <<rq.method, rq.path, status_code>>),
              MetricEvent("REQUEST_DURATION", <<rq.method, rq.path>>),
              LogEvent(ss, current, "request_processed", "INFO", kwargs)>>

\* metric updates and log records of the normal-completion path, in order
ResponseEffects(ss, current, id, rq, status_code) ==
  LET kwargs == [method |-> rq.method, endpoint |-> rq.path,
                 status_code |-> status_code,
                 trace_id |-> FormatTraceId(ss, id),
                 span_id |-> FormatSpanId(ss, id)]
  IN <<MetricEvent("REQUEST_COUNT", <<rq.method, rq.path, status_code>>),
       MetricEvent("REQUEST_DURATION", <<rq.method, rq.path>>),
       LogEvent(ss, current, "request_processed", "INFO", kwargs)>>
     \o (IF IsHttpError(status_code)
           THEN <<MetricEvent("ERROR_COUNT",
                    <<rq.method, rq.path, HttpErrorType(status_code)>>),
                  LogEvent(ss, current, "http_error", "ERROR", kwargs)>>
           ELSE <<>>)

\* the span after the except block
ExceptionSpan(ss, id, r, e) ==
  RecordException(SetStatus(ss, id, r, "ERROR", e.msg), id, r, e)

ExceptionEffectsCounted(ss, current, id, rq, e) ==
  <<MetricEvent("REQUEST_COUNT", <<rq.method, rq.path, 500>>),
    MetricEvent("ERROR_COUNT", <<rq.method, rq.path, ExceptionTypeName(e)>>),
    LogEvent(ss, current, "request_failed", "ERROR",
      [method |-> rq.method, endpoint |-> rq.path, error |-> e.msg,
       error_type |-> ExceptionTypeName(e),
       trace_id |-> FormatTraceId(ss, id),
       span_id |-> FormatSpanId(ss, id)])>>

\* metric updates and log records of the except block, in order
ExceptionEffects(ss, current, id, rq, e) ==
  <<MetricEvent("ERROR_COUNT", <<rq.method, rq.path, ExceptionTypeName(e)>>),
    LogEvent(ss, current, "request_failed", "ERROR",
      [method |-> rq.method, endpoint |-> rq.path, error |-> e.msg,
       error_type |-> ExceptionTypeName(e),
       trace_id |-> FormatTraceId(ss, id),
       span_id |-> FormatSpanId(ss, id)])>>

\* the registry after the updates among `effects` that go to metric `name`
RECURSIVE Record(_, _, _)
Record(metric, name, effects) ==
  IF effects = <<>> THEN metric
  ELSE Record(IF Head(effects).ev = name
                THEN Inc(metric, Head(effects).labels) ELSE metric,
              name, Tail(effects))

LeaveScopeFirst(before, effects, id) ==
  before \o <<SpanEvent("span_end", id)>> \o effects

\* the request's effects once the block guarded by the span scope has run
\* and the scope is left
LeaveScope(before, effects, id) ==
  before \o effects \o <<SpanEvent("span_end", id)>>

Finish(r, ss, effects, outcome) ==
  /\ spans' = EndSpan(ss, LocalSpan(r))
  /\ ctx' = [ctx EXCEPT ![r] = 0]
  /\ events' = [events EXCEPT ![r] = LeaveScope(@, effects, LocalSpan(r))]
  /\ REQUEST_COUNT' = Record(REQUEST_COUNT, "REQUEST_COUNT", effects)
  /\ REQUEST_DURATION' = Record(REQUEST_DURATION, "REQUEST_DURATION", effects)
  /\ ERROR_COUNT' = Record(ERROR_COUNT, "ERROR_COUNT", effects)
  /\ delivered' = [delivered EXCEPT ![r] = outcome]
  /\ pc' = [pc EXCEPT ![r] = "done"]
  /\ UNCHANGED <<telemetry_vars, req, span_of, result, db_vars>>

\* call_next returned a response: the rest of the try block, then the
\* span scope is left by `return response`
OnResponse(r) ==
  /\ pc[r] = "returned"
  /\ LET ss == ResponseSpan(spans, LocalSpan(r), r, result[r].status_code)
     IN Finish(r, ss,
          ResponseEffects(ss, ctx[r], LocalSpan(r), req[r],
                          result[r].status_code),
          result[r])

\* call_next raised an Exception: the except block, then the span scope is
\* left by `raise e`
OnException(r) ==
  /\ pc[r] = "raised"
  /\ LET e == [type |-> result[r].type, msg |-> result[r].msg]
         ss == ExceptionSpan(spans, LocalSpan(r), r, e)
     IN Finish(r, ss,
          ExceptionEffects(ss, ctx[r], LocalSpan(r), req[r], e),
          [kind |-> "exception", type |-> e.type, msg |-> e.msg])

\* call_next was cancelled: CancelledError is no Exception, so no except
\* clause runs and the error only unwinds the span scope
OnCancelled(r) ==
  /\ pc[r] = "cancelled"
  /\ Finish(r, spans, <<>>, [kind |-> "cancelled"])

(* ---------------------------- initial state ---------------------------- *)
InitRequests ==
  /\ pc = [r \in Reqs |-> "idle"]
  /\ req = [r \in Reqs |-> None]
  /\ span_of = [r \in Reqs |-> 0]
  /\ ctx = [r \in Reqs |-> 0]
  /\ result = [r \in Reqs |-> NoResult]
  /\ delivered = [r \in Reqs |-> NoResult]
  /\ events = [r \in Reqs |-> <<>>]
  /\ REQUEST_COUNT = <<>>
  /\ REQUEST_DURATION = <<>>
  /\ ERROR_COUNT = <<>>
  /\ products = SeededProducts
  /\ orders = <<>>
  /\ celery_tasks = <<>>
  /\ background_tasks = <<>>

\* telemetry.py imported, setup_telemetry not called yet
InitTelemetry ==
  /\ otel = OtelInit
  /\ setup_results = <<>>
  /\ spans = <<>>
  /\ InitRequests

NextTelemetry == SetupTelemetry

SpecTelemetry == InitTelemetry /\ [][NextTelemetry]_vars

\* main.py imported: setup_telemetry() has been called once
Init ==
  /\ \E fail \in ImportFailPoints :
       /\ otel = SetupBody(OtelInit, SERVICE_NAME, fail)
       /\ spans = SetupTestSpan(<<>>, SERVICE_NAME, fail)
       /\ setup_results = <<fail = 0>>
  /\ InitRequests

Next ==
  \/ \E r \in Reqs, rq \in Requests : ReceiveRequest(r, rq)
  \/ \E r \in Reqs : root(r)
  \/ \E r \in Reqs : error_test(r)
  \/ \E r \in Reqs : checkout(r)
  \/ \E r \in Reqs : process_specific_order(r)
  \/ \E r \in Reqs, e \in Exceptions : CallNextRaises(r, e)
  \/ \E r \in Reqs : CallNextCancelled(r)
  \/ \E r \in Reqs : OnResponse(r)
  \/ \E r \in Reqs : OnException(r)
  \/ \E r \in Reqs : OnCancelled(r)

Spec == Init /\ [][Next]_vars

(* ---------------------------- properties ------------------------------- *)
InFlight == {"awaiting", "returned", "raised", "cancelled"}

Started(r) == pc[r] # "idle"
Done(r) == pc[r] = "done"
GotResponse(r) == Done(r) /\ result[r].kind = "response"
GotException(r) == Done(r) /\ result[r].kind = "exception"
GotCancelled(r) == Done(r) /\ result[r].kind = "cancelled"

\* positions of request r's effects of one kind
EventsOf(r, name) == {i \in DOMAIN events[r] : events[r][i].ev = name}

MetricEventsOf(r) ==
  {i \in DOMAIN events[r] :
     events[r][i].ev \in {"REQUEST_COUNT", "REQUEST_DURATION", "ERROR_COUNT"}}

LogsOf(r, msg) ==
  {i \in EventsOf(r, "log") : events[r][i].data.message = msg}

RECURSIVE Sum(_, _)
Sum(f, S) ==
  IF S = {} THEN 0
  ELSE LET x == CHOOSE y \in S : TRUE IN f[x] + Sum(f, S \ {x})

\* how often the requests so far updated metric `name` at `labels`
Updates(name, labels) ==
  Sum([r \in Reqs |->
         Cardinality({i \in EventsOf(r, name) : events[r][i].labels = labels})],
      Reqs)

\* every sample of a registry is the number of updates the requests made
MatchesEvents(metric, name) ==
  /\ \A labels \in DOMAIN metric : metric[labels] = Updates(name, labels)
  /\ \A r \in Reqs : \A i \in EventsOf(r, name) :
       events[r][i].labels \in DOMAIN metric

SpansOf(r) == {id \in DOMAIN spans : spans[id].owner = r}

\* C1: every request opens exactly one span and closes it exactly once,
\* whether call_next returns, raises or is cancelled: the span is open
\* while the request is in flight and ended once, never twice, when the
\* request is over.
C1_OneSpanOpenedAndClosedOnce ==
  \A r \in Reqs :
    /\ ~Started(r) => SpansOf(r) = {}
    /\ Started(r) =>
         /\ SpansOf(r) = {span_of[r]}
         /\ Cardinality(EventsOf(r, "span_start")) = 1
    /\ pc[r] \in InFlight =>
         /\ spans[span_of[r]].ends = 0
         /\ EventsOf(r, "span_end") = {}
    /\ Done(r) =>
         /\ spans[span_of[r]].ends = 1
         /\ Cardinality(EventsOf(r, "span_end")) = 1

C1_Witness ==
  \E r1, r2 \in Reqs :
    /\ GotCancelled(r1) /\ spans[span_of[r1]].ends = 1
    /\ GotException(r2) /\ spans[span_of[r2]].ends = 1

\* C2: a request whose handler returned a response incremented the error
\* counter exactly once, at error type "http_{status}", when the status is
\* 400 or more, and not at all when the status is below 400.
C2_HttpErrorCountedOnce ==
  /\ MatchesEvents(ERROR_COUNT, "ERROR_COUNT")
  /\ \A r \in Reqs : GotResponse(r) =>
       LET status == result[r].status_code IN
         IF status >= 400
           THEN /\ Cardinality(EventsOf(r, "ERROR_COUNT")) = 1
                /\ \A i \in EventsOf(r, "ERROR_COUNT") :
                     /\ events[r][i].labels =
                          <<req[r].method, req[r].path,
                            "http_" \o ToString(status)>>
                     /\ ERROR_COUNT[events[r][i].labels] >= 1
           ELSE EventsOf(r, "ERROR_COUNT") = {}

C2_Witness ==
  \E r1, r2 \in Reqs :
    /\ GotResponse(r1) /\ result[r1].status_code = 404
    /\ <<req[r1].method, req[r1].path, "http_404">> \in DOMAIN ERROR_COUNT
    /\ GotResponse(r2) /\ result[r2].status_code = 200

\* C3: a request whose handler raised an exception incremented the error
\* counter exactly once, at the exception's type name, and the middleware
\* raised that exception (same type, same message) to its caller.
C3_ExceptionCountedAndReraised ==
  /\ MatchesEvents(ERROR_COUNT, "ERROR_COUNT")
  /\ \A r \in Reqs : GotException(r) =>
       /\ Cardinality(EventsOf(r, "ERROR_COUNT")) = 1
       /\ \A i \in EventsOf(r, "ERROR_COUNT") :
            /\ events[r][i].labels =
                 <<req[r].method, req[r].path, result[r].type>>
            /\ ERROR_COUNT[events[r][i].labels] >= 1
       /\ delivered[r] = result[r]
       /\ delivered[r].kind = "exception"

C3_Witness ==
  \E r1, r2 \in Reqs :
    /\ GotException(r1) /\ delivered[r1].type = "ValueError"
    /\ GotException(r2) /\ delivered[r2].type = "RuntimeError"
    /\ delivered[r2].msg = "boom"

IsCheckout(r) == Started(r) /\ req[r].path = "/checkout"

CheckoutAnswered(r) ==
  IsCheckout(r) /\ result[r].kind = "response"

\* C5: checkout of a product that exists answers 200 with the id of an order
\* stored for this request alone and the id of a process_order task queued
\* with its data; checkout of a product that does not exist answers 404
\* with detail "Product not found"; only the checkouts answered 200 stored
\* an order or queued a confirmation.
C5_CheckoutContract ==
  /\ \A r \in Reqs : CheckoutAnswered(r) =>
       LET order == req[r].body
           body  == result[r].body
       IN IF order.product_id \in products
            THEN /\ result[r].status_code = 200
                 /\ body.order_id \in DOMAIN orders
                 /\ orders[body.order_id] =
                      [product_id |-> order.product_id,
                       quantity |-> order.quantity]
                 /\ body.task_id \in DOMAIN celery_tasks
                 /\ celery_tasks[body.task_id] =
                      [task |-> "process_order",
                       order_data |-> [product_id |-> order.product_id,
                                       quantity |-> order.quantity]]
                 /\ \A q \in Reqs \ {r} :
                      (CheckoutAnswered(q) /\ result[q].status_code = 200)
                        => /\ result[q].body.order_id # body.order_id
                           /\ result[q].body.task_id # body.task_id
            ELSE /\ result[r].status_code = 404
                 /\ body = [detail |-> "Product not found"]
  /\ Len(orders) =
       Cardinality({r \in Reqs :
                      CheckoutAnswered(r) /\ result[r].status_code = 200})
  /\ Len(background_tasks) = Len(orders)
  /\ Len(celery_tasks) =
       Cardinality({r \in Reqs :
                      /\ Started(r)
                      /\ req[r].path \in {"/checkout"} \cup
                           {ProcessPath(o) : o \in OrderIds}
                      /\ result[r].kind = "response"
                      /\ result[r].status_code = 200})

C5_Witness ==
  \E r1, r2 \in Reqs :
    /\ CheckoutAnswered(r1) /\ result[r1].status_code = 200
    /\ result[r1].body.order_id = 1
    /\ CheckoutAnswered(r2) /\ result[r2].status_code = 404
    /\ Len(orders) = 1 /\ Len(celery_tasks) = 1

\* C6: the opening of a request's span is the first of its effects and the
\* closing of the span the last: every metric update and log record of the
\* request lies between them, after a response and after an exception.
C6_SpanBracketsEffects ==
  \A r \in Reqs :
    /\ Started(r) =>
         /\ events[r] # <<>>
         /\ events[r][1] = SpanEvent("span_start", span_of[r])
    /\ \A i \in DOMAIN events[r] :
         /\ events[r][i].ev = "span_start" => i = 1
         /\ events[r][i].ev = "span_end" => i = Len(events[r])
         /\ events[r][i].ev \notin {"span_start", "span_end"} =>
              /\ 1 < i /\ i < Len(events[r])
              /\ events[r][Len(events[r])] =
                   SpanEvent("span_end", span_of[r])
    /\ Done(r) =>
         events[r][Len(events[r])] = SpanEvent("span_end", span_of[r])

C6_Witness ==
  \E r1, r2 \in Reqs :
    /\ GotResponse(r1) /\ result[r1].status_code >= 400
    /\ Len(events[r1]) = 7
    /\ GotException(r2) /\ Len(events[r2]) = 4

\* C7: a request whose handler was cancelled has its span closed, and the
\* span's status is ERROR when it closes.
C7_CancelledSpanMarkedError ==
  \A r \in Reqs : GotCancelled(r) =>
    /\ spans[span_of[r]].ends = 1
    /\ spans[span_of[r]].status.code = "ERROR"

\* C8: requests never share a span: the spans of two requests differ, a
\* span's status, attributes and recorded exceptions are written by its own
\* request only, and the trace_id and span_id of every log record of a
\* request are those of the request's own span (null when the span's context
\* is not valid).
C8_SpansNotShared ==
  /\ \A r1, r2 \in Reqs :
       (Started(r1) /\ Started(r2) /\ r1 # r2) => span_of[r1] # span_of[r2]
  /\ \A id \in DOMAIN spans : spans[id].touched_by \subseteq {spans[id].owner}
  /\ \A r \in Reqs :
       /\ Started(r) => spans[span_of[r]].owner = r
       /\ \A i \in EventsOf(r, "log") :
            LET data == events[r][i].data IN
              IF spans[span_of[r]].valid
                THEN /\ data.trace_id = Format(TraceIdOf(span_of[r]), 32)
                     /\ data.span_id = Format(SpanIdOf(span_of[r]), 16)
                ELSE /\ data.trace_id = None
                     /\ data.span_id = None

\* the later of two overlapping requests is over, the earlier still in flight
C8_Witness ==
  \E r1, r2 \in Reqs :
    /\ r1 < r2
    /\ pc[r1] = "returned"
    /\ GotResponse(r2) /\ result[r2].status_code >= 400
    /\ spans[span_of[r2]].valid
    /\ spans[span_of[r2]].touched_by = {r2}
    /\ EventsOf(r2, "log") # {}

\* C9: a request whose handler returned a response, whatever the status,
\* incremented the request count once, observed the duration once, logged
\* "request_processed" once, logged "http_error" once exactly when the status
\* is 400 or more, and handed the handler's response on unchanged.
C9_NormalCompletionEffects ==
  /\ MatchesEvents(REQUEST_COUNT, "REQUEST_COUNT")
  /\ MatchesEvents(REQUEST_DURATION, "REQUEST_DURATION")
  /\ \A r \in Reqs : GotResponse(r) =>
       LET status == result[r].status_code IN
         /\ Cardinality(EventsOf(r, "REQUEST_COUNT")) = 1
         /\ \A i \in EventsOf(r, "REQUEST_COUNT") :
              events[r][i].labels = <<req[r].method, req[r].path, status>>
         /\ Cardinality(EventsOf(r, "REQUEST_DURATION")) = 1
         /\ \A i \in EventsOf(r, "REQUEST_DURATION") :
              events[r][i].labels = <<req[r].method, req[r].path>>
         /\ Cardinality(LogsOf(r, "request_processed")) = 1
         /\ Cardinality(LogsOf(r, "http_error")) = IF status >= 400 THEN 1 ELSE 0
         /\ Cardinality(EventsOf(r, "log")) = IF status >= 400 THEN 2 ELSE 1
         /\ delivered[r] = result[r]
         /\ delivered[r].kind = "response"

C9_Witness ==
  \E r1, r2 \in Reqs :
    /\ GotResponse(r1) /\ result[r1].status_code = 500
    /\ LogsOf(r1, "http_error") # {}
    /\ GotResponse(r2) /\ result[r2].status_code = 200
    /\ REQUEST_COUNT[<<req[r2].method, req[r2].path, 200>>] = 1

RouteTemplates ==
  {"/", "/error-test", "/checkout", "/orders/{order_id}/process"}

\* C11: the route label (the second label) of every label tuple present in
\* the request counter, the duration histogram and the error counter is one
\* of the route templates, never a raw path that holds an order id.
C11_LabelsAreRouteTemplates ==
  /\ \A labels \in DOMAIN REQUEST_COUNT : labels[2] \in RouteTemplates
  /\ \A labels \in DOMAIN REQUEST_DURATION : labels[2] \in RouteTemplates
  /\ \A labels \in DOMAIN ERROR_COUNT : labels[2] \in RouteTemplates
====
